---- MODULE Spec2Model ----
(***************************************************************************)
(* Task state machine, priority queue, stuck-task recovery, approval gate  *)
(* and run orchestrator of the job application bot                         *)
(* (backend/app/services/state_machine.py, queue.py, run_queue.py,         *)
(* backend/app/api/approvals.py, runs.py, tasks.py, backend/app/worker.py).*)
(*                                                                         *)
(* Twelve specifications share the variables:                              *)
(*   Spec        one task driven by every operation, each handler atomic;  *)
(*   SpecCalls   transition_task under every combination of arguments;     *)
(*   SpecSweep   the tasks of a run, their workers' reports and the        *)
(*               recovery sweep;                                           *)
(*   SpecResume  the tasks of a run that stop and are resumed by hand;     *)
(*   SpecWorkers several workers running worker_main on shared runs, with  *)
(*               the row locks of SELECT ... FOR UPDATE SKIP LOCKED;       *)
(*   SpecRuns    concurrent admission requests on the runs of the users,   *)
(*               interleaved at every database round trip;                 *)
(*   SpecRunsSerial  the same requests, one at a time;                     *)
(*   SpecSweepSteps  the recovery sweep query by query, next to workers    *)
(*               that report and to the deletion of a job's tasks;         *)
(*   SpecPickup  fair workers polling a run whose tasks pass the approval  *)
(*               gate;                                                     *)
(*   SpecApprovalSteps  the answer to an approval request, commit by       *)
(*               commit;                                                   *)
(*   SpecCompletion  a run completed while its workers are at work;        *)
(*   SpecRecovery  fair workers that claim and never report, with a fair   *)
(*               sweeper.                                                  *)
(***************************************************************************)
EXTENDS Integers, Sequences, FiniteSets, TLC

\* ------------------------------------------------------------------ bounds
MaxTime == 3            \* the clock runs 1..MaxTime
MaxAttemptCount == 3    \* no task enters RUNNING more often than this
MaxTimeout == 1         \* recover_stuck_tasks: timeout_minutes in 1..MaxTimeout
MaxMaxAttempts == 2     \* recover_stuck_tasks: max_attempts in 1..MaxMaxAttempts
MaxTTL == 1             \* create_approval_request: ttl_minutes in 1..MaxTTL
NumTasks == 2           \* tasks of SpecSweep, SpecResume, SpecWorkers
NumWorkers == 2         \* workers of SpecWorkers
NumRuns == 3            \* runs of SpecRuns
NumRequests == 2        \* concurrent admission requests of SpecRuns
NumUsers == 2           \* users of SpecRuns

\* --------------------------------------------------------------- constants
PRIORITY_APPROVED == 200
PRIORITY_RESUMED == 100
PRIORITY_NORMAL == 50
RETRY_PRIORITY == 100
AUTO_RETRY_LIMIT == 2

None == "None"
NoTime == 0

\* The ten task states: the keys of ALLOWED_TRANSITIONS.
TaskState ==
    {"QUEUED", "RUNNING", "NEEDS_AUTH", "NEEDS_USER", "PENDING_APPROVAL",
     "APPROVED", "SUBMITTED", "FAILED", "EXPIRED", "REJECTED"}

ALLOWED_TRANSITIONS_terminal_resumable ==
    [s \in TaskState |->
        CASE s = "QUEUED" -> {"RUNNING"}
          [] s = "RUNNING" -> {"NEEDS_AUTH", "NEEDS_USER", "PENDING_APPROVAL",
                               "SUBMITTED", "FAILED", "EXPIRED", "QUEUED"}
          [] s = "NEEDS_AUTH" -> {"QUEUED"}
          [] s = "NEEDS_USER" -> {"QUEUED"}
          [] s = "PENDING_APPROVAL" -> {"APPROVED", "EXPIRED", "REJECTED"}
          [] s = "APPROVED" -> {"RUNNING", "EXPIRED"}
          [] s = "FAILED" -> {"QUEUED"}
          [] s = "SUBMITTED" -> {"QUEUED"}
          [] s = "REJECTED" -> {"QUEUED"}
          [] s = "EXPIRED" -> {"QUEUED"}]

ALLOWED_TRANSITIONS ==
    [s \in TaskState |->
        CASE s = "QUEUED" -> {"RUNNING"}
          [] s = "RUNNING" -> {"NEEDS_AUTH", "NEEDS_USER", "PENDING_APPROVAL",
                               "SUBMITTED", "FAILED", "EXPIRED", "QUEUED"}
          [] s = "NEEDS_AUTH" -> {"QUEUED"}
          [] s = "NEEDS_USER" -> {"QUEUED"}
          [] s = "PENDING_APPROVAL" -> {"APPROVED", "EXPIRED", "REJECTED"}
          [] s = "APPROVED" -> {"RUNNING", "EXPIRED"}
          [] s = "FAILED" -> {"QUEUED"}
          [] s = "SUBMITTED" -> {}
          [] s = "REJECTED" -> {}
          [] s = "EXPIRED" -> {"QUEUED"}]

can_transition_allowing_self(from_state, to_state) ==
    to_state = from_state \/ to_state \in ALLOWED_TRANSITIONS[from_state]

can_transition(from_state, to_state) ==
    to_state \in ALLOWED_TRANSITIONS[from_state]

\* metadata: a dict that may carry the keys error_code and error_message;
\* Absent / AbsentMessage stand for a missing key, and the dict with no key
\* is the empty dict (or None), which is falsy.
Absent == "Absent"
AbsentMessage == <<"absent">>
NoMessage == <<>>
ErrorCodes == {"E"}
ErrorMessages == {<<"M">>}
Metadata ==
    [error_code : ErrorCodes \cup {Absent},
     error_message : ErrorMessages \cup {AbsentMessage}]
NoMetadata == [error_code |-> Absent, error_message |-> AbsentMessage]

\* A fresh ApplicationTask row (column defaults).
NewTask(run_id, job_id, queued_at) ==
    [state |-> "QUEUED", priority |-> PRIORITY_NORMAL, attempt_count |-> 0,
     last_error_code |-> None, last_error_message |-> NoMessage,
     queued_at |-> queued_at, started_at |-> NoTime,
     last_state_change_at |-> queued_at,
     run_id |-> run_id, job_id |-> job_id]

\* ------------------------------------------------- transition_task, as a
\* function of the row, the arguments and the clock: the outcome, the row
\* afterwards and whether the job posting is marked as applied.
AutoRetries_every_failure(attempt_count) == TRUE

AutoRetries_never(attempt_count) == FALSE

AutoRetries_off_by_one(attempt_count) == attempt_count <= AUTO_RETRY_LIMIT

AutoRetries(attempt_count) == attempt_count < AUTO_RETRY_LIMIT

MarksApplied_on_failed(to_state) == to_state \in {"SUBMITTED", "FAILED"}

MarksApplied(to_state) == to_state = "SUBMITTED"

\* the error fields after the metadata is handled
ErrorCode_cleared_when_absent(task, metadata) ==
    IF metadata.error_code # Absent THEN metadata.error_code ELSE None

ErrorCode(task, metadata) ==
    IF metadata.error_code # Absent THEN metadata.error_code ELSE task.last_error_code

ErrorMessage(task, metadata) ==
    IF metadata.error_message # AbsentMessage
    THEN metadata.error_message ELSE task.last_error_message

\* started_at after an entry into RUNNING
StartedAt_every_entry(task, t) == t

StartedAt(task, t) == IF task.started_at = NoTime THEN t ELSE task.started_at

ApplyTransition(task, from_state, to_state, metadata, t) ==
    LET s1 == [task EXCEPT !.state = to_state, !.last_state_change_at = t]
        s2 == [s1 EXCEPT
                 !.last_error_code = ErrorCode(s1, metadata),
                 !.last_error_message = ErrorMessage(s1, metadata)]
        s3 == IF to_state = "RUNNING"
              THEN [s2 EXCEPT
                      !.started_at = StartedAt(s2, t),
                      !.attempt_count = @ + 1]
              ELSE s2
        s4 == IF to_state = "FAILED" /\ AutoRetries(s3.attempt_count)
              THEN [s3 EXCEPT !.state = "QUEUED", !.priority = RETRY_PRIORITY]
              ELSE s3
        s5 == IF to_state = "QUEUED" /\ from_state \in {"NEEDS_AUTH", "NEEDS_USER"}
              THEN [s4 EXCEPT !.priority = PRIORITY_RESUMED]
              ELSE s4
        s6 == IF to_state = "RUNNING" /\ from_state = "APPROVED"
              THEN [s5 EXCEPT !.priority = PRIORITY_APPROVED]
              ELSE s5
    IN  s6

transition_task_unvalidated(task, from_state, to_state, metadata, t) ==
    IF from_state # None /\ task.state # from_state
    THEN [status |-> "ValueError", task |-> task, applied |-> FALSE]
    ELSE [status |-> "ok",
          task |-> ApplyTransition(task, from_state, to_state, metadata, t),
          applied |-> MarksApplied(to_state)]

transition_task_unchecked_expectation(task, from_state, to_state, metadata, t) ==
    LET transition_from == IF from_state # None THEN from_state ELSE task.state
    IN  IF to_state \notin ALLOWED_TRANSITIONS[transition_from]
        THEN [status |-> "InvalidTransitionError", task |-> task, applied |-> FALSE]
        ELSE [status |-> "ok",
              task |-> ApplyTransition(task, from_state, to_state, metadata, t),
              applied |-> MarksApplied(to_state)]

transition_task(task, from_state, to_state, metadata, t) ==
    LET current_state == task.state
        transition_from == IF from_state # None THEN from_state ELSE current_state
    IN  IF from_state # None /\ current_state # from_state
        THEN [status |-> "ValueError", task |-> task, applied |-> FALSE]
        ELSE IF to_state \notin ALLOWED_TRANSITIONS[transition_from]
        THEN [status |-> "InvalidTransitionError", task |-> task, applied |-> FALSE]
        ELSE [status |-> "ok",
              task |-> ApplyTransition(task, from_state, to_state, metadata, t),
              applied |-> MarksApplied(to_state)]


\* ---------------------------------------------------------------- state
VARIABLES
    tasks,      \* application_tasks: task id -> row
    applied,    \* job_postings.has_been_applied_to: job id -> BOOLEAN
    approvals,  \* approval_requests, keyed by their unique task_id
    now,        \* datetime.utcnow()
    result,     \* outcome of the last call: operation, status, value
    lock,       \* row locks on application_tasks: task id -> worker or 0
    workers,    \* worker_main processes: position and session contents
    runs,       \* application_runs: run id -> row
    requests,   \* admission requests in flight: position and locals
    auto_retried, \* history: task id -> number of calls that asked for FAILED
                \* and left the row in QUEUED
    sweep       \* recover_stuck_tasks: position, session rows, max_attempts

vars ==
    <<tasks, applied, approvals, now, result, lock, workers, runs, requests,
      auto_retried, sweep>>

NoApproval ==
    [status |-> "none", expires_at |-> NoTime, approved_at |-> NoTime,
     form_data |-> "none"]
NoResult == [op |-> "none", status |-> "none", to |-> None, ret |-> 0]
IdleSweep ==
    [pc |-> "idle", order |-> <<>>, i |-> 0, rows |-> <<>>, max_attempts |-> 0]
Result(op, status, to, ret) == [op |-> op, status |-> status, to |-> to, ret |-> ret]

TaskIds == DOMAIN tasks
FromStates == TaskState \cup {None}
Timeouts == 1..MaxTimeout
MaxAttemptsArgs == 1..MaxMaxAttempts
TTLs == 1..MaxTTL
FormDatas == {"form_a", "form_b"}

\* Outcome of a transition_task call on the stored row of task id.
Transition(id, from_state, to_state, metadata) ==
    transition_task(tasks[id], from_state, to_state, metadata, now)

\* _mark_job_as_applied, as committed together with the transition.
MarkApplied(flags, job_id, marks) ==
    [flags EXCEPT ![job_id] = @ \/ marks]

\* The auto-retry fired: the call asked for FAILED and left the row in QUEUED.
AutoRetried(to_state, outcome) ==
    /\ outcome.status = "ok"
    /\ to_state = "FAILED"
    /\ outcome.task.state = "QUEUED"

\* --------------------------------------------------- Spec: atomic handlers
TransitionTaskCall(id, from_state, to_state, metadata) ==
    LET r == Transition(id, from_state, to_state, metadata)
    IN  /\ lock[id] = 0
        \* the edges out of PENDING_APPROVAL are taken by approve_or_reject only
        /\ ~(tasks[id].state = "PENDING_APPROVAL" /\ r.status = "ok")
        /\ r.task.attempt_count <= MaxAttemptCount
        /\ tasks' = [tasks EXCEPT ![id] = r.task]
        /\ applied' = MarkApplied(applied, tasks[id].job_id, r.applied)
        /\ result' = Result("transition_task", r.status,
                            IF r.status = "ok" THEN to_state ELSE None, id)
        /\ auto_retried' = [auto_retried EXCEPT ![id] =
                               IF AutoRetried(to_state, r) THEN @ + 1 ELSE @]
        /\ UNCHANGED <<approvals, now, lock, workers, runs, requests, sweep>>

\* dequeue_next_task: the QUEUED rows of the run that no other transaction
\* has locked, ordered by priority desc, queued_at asc, limit 1.  Rows that
\* tie on both keys come back in an order the database chooses.
Candidates_ignoring_locks(run_id, w) ==
    {id \in TaskIds : /\ tasks[id].run_id = run_id
                      /\ tasks[id].state = "QUEUED"}

Candidates_of_any_run(run_id, w) ==
    {id \in TaskIds : /\ tasks[id].state = "QUEUED"
                      /\ lock[id] \in {0, w}}

\* FOR UPDATE without SKIP LOCKED, as far as a call that must not wait can
\* go: the head of the queue, or nothing when another transaction holds it
Candidates_head_only(run_id, w) ==
    {id \in TaskIds :
        /\ tasks[id].run_id = run_id
        /\ tasks[id].state = "QUEUED"
        /\ lock[id] \in {0, w}
        /\ \A o \in TaskIds :
              (tasks[o].run_id = run_id /\ tasks[o].state = "QUEUED")
              => lock[o] \in {0, w}}

Candidates(run_id, w) ==
    {id \in TaskIds : /\ tasks[id].run_id = run_id
                      /\ tasks[id].state = "QUEUED"
                      /\ lock[id] \in {0, w}}

Precedes_fifo_reversed(a, b) ==
    \/ a.priority > b.priority
    \/ a.priority = b.priority /\ a.queued_at > b.queued_at

Precedes(a, b) ==
    \/ a.priority > b.priority
    \/ a.priority = b.priority /\ a.queued_at < b.queued_at

dequeue_next_task(run_id, w) ==
    LET c == Candidates(run_id, w)
    IN  {id \in c : \A other \in c : ~Precedes(tasks[other], tasks[id])}

RunIds == {tasks[id].run_id : id \in TaskIds}

\* A caller that only looks at the head of the queue and ends its
\* transaction: nothing is written.
DequeueCall(run_id) ==
    /\ \/ /\ dequeue_next_task(run_id, 0) = {}
          /\ result' = Result("dequeue_next_task", "ok", None, 0)
       \/ \E id \in dequeue_next_task(run_id, 0) :
             result' = Result("dequeue_next_task", "ok", None, id)
    /\ UNCHANGED <<tasks, applied, approvals, now, lock, workers, runs, requests,
                   auto_retried, sweep>>

\* recover_stuck_tasks: the rows selected as stuck, then one transition_task
\* call (with its own commit) per row, in the order the database returned.
StuckTasks_inclusive(timeout) ==
    {id \in TaskIds : /\ tasks[id].state = "RUNNING"
                      /\ tasks[id].started_at # NoTime
                      /\ tasks[id].started_at <= now - timeout}

StuckTasks_ignoring_state(timeout) ==
    {id \in TaskIds : /\ tasks[id].started_at # NoTime
                      /\ tasks[id].started_at < now - timeout}

StuckTasks(timeout) ==
    {id \in TaskIds : /\ tasks[id].state = "RUNNING"
                      /\ tasks[id].started_at # NoTime
                      /\ tasks[id].started_at < now - timeout}

StuckMessage(task) == <<"stuck", task.attempt_count>>

RecoverOne_always_requeues(task, max_attempts, t) ==
    transition_task(task, "RUNNING", "QUEUED", NoMetadata, t)

RecoverOne(task, max_attempts, t) ==
    IF task.attempt_count >= max_attempts
    THEN transition_task(task, "RUNNING", "FAILED",
                         [error_code |-> "MAX_ATTEMPTS_EXCEEDED",
                          error_message |-> StuckMessage(task)], t)
    ELSE transition_task(task, "RUNNING", "QUEUED", NoMetadata, t)

Orders(S) ==
    {o \in [1..Cardinality(S) -> S] : \A i, j \in 1..Cardinality(S) : o[i] = o[j] => i = j}

RECURSIVE RecoverLoop(_, _, _, _)
RecoverLoop(order, i, rows, max_attempts) ==
    IF i > Len(order)
    THEN [status |-> "ok", rows |-> rows]
    ELSE LET id == order[i]
             r == RecoverOne(rows[id], max_attempts, now)
         IN  IF r.status # "ok"
             THEN [status |-> r.status, rows |-> rows]
             ELSE RecoverLoop(order, i + 1, [rows EXCEPT ![id] = r.task], max_attempts)

RecoverStuckTasks(timeout, max_attempts) ==
    \E order \in Orders(StuckTasks(timeout)) :
        LET r == RecoverLoop(order, 1, tasks, max_attempts)
        IN  /\ \A id \in TaskIds : lock[id] = 0
            /\ tasks' = r.rows
            /\ result' = Result("recover_stuck_tasks", r.status, None,
                                IF r.status = "ok" THEN Len(order) ELSE 0)
            \* the rows the loop reached with a request for FAILED
            /\ auto_retried' =
                  [id \in TaskIds |->
                      IF /\ r.rows[id] # tasks[id]
                         /\ tasks[id].attempt_count >= max_attempts
                         /\ AutoRetried("FAILED", [status |-> "ok", task |-> r.rows[id]])
                      THEN auto_retried[id] + 1
                      ELSE auto_retried[id]]
            /\ UNCHANGED <<applied, approvals, now, lock, workers, runs, requests,
                           sweep>>

\* queue.resume_task: transition to QUEUED from whatever state the row is
\* in, then priority and queued_at are overwritten and committed.
ResumedRow_keeps_queued_at(task, t) == [task EXCEPT !.priority = PRIORITY_RESUMED]

ResumedRow(task, t) == [task EXCEPT !.priority = PRIORITY_RESUMED, !.queued_at = t]

queue_resume_task(task, t) ==
    LET r == transition_task(task, task.state, "QUEUED", NoMetadata, t)
    IN  IF r.status = "ok"
        THEN [status |-> "ok", task |-> ResumedRow(r.task, t)]
        ELSE [status |-> r.status, task |-> task]

QueueResumeTask(id) ==
    LET r == queue_resume_task(tasks[id], now)
    IN  /\ lock[id] = 0
        /\ tasks' = [tasks EXCEPT ![id] = r.task]
        /\ result' = Result("queue.resume_task", r.status, None, id)
        /\ UNCHANGED <<applied, approvals, now, lock, workers, runs, requests,
                       auto_retried, sweep>>

\* POST /tasks/{id}/resume
ResumableStates_with_running ==
    {"FAILED", "NEEDS_AUTH", "NEEDS_USER", "EXPIRED", "RUNNING"}

ResumableStates_without_expired == {"FAILED", "NEEDS_AUTH", "NEEDS_USER"}

ResumableStates == {"FAILED", "NEEDS_AUTH", "NEEDS_USER", "EXPIRED"}

tasks_resume_task(task, t) ==
    LET r == transition_task(task, task.state, "QUEUED", NoMetadata, t)
    IN  IF task.state \notin ResumableStates
        THEN [status |-> "409", task |-> task]
        ELSE IF r.status = "ok"
        THEN [status |-> "ok", task |-> [r.task EXCEPT !.priority = 100]]
        ELSE [status |-> IF r.status = "ValueError" THEN "400" ELSE "500",
              task |-> task]

ResumeEndpoint(id) ==
    LET r == tasks_resume_task(tasks[id], now)
    IN  /\ lock[id] = 0
        /\ tasks' = [tasks EXCEPT ![id] = r.task]
        /\ result' = Result("tasks.resume_task", r.status, None, id)
        /\ UNCHANGED <<applied, approvals, now, lock, workers, runs, requests,
                       auto_retried, sweep>>

\* POST /approvals/
AwaitsApproval_or_running(task) == task.state \in {"PENDING_APPROVAL", "RUNNING"}

AwaitsApproval(task) == task.state = "PENDING_APPROVAL"

ExistingPending_never(approval) == FALSE

ExistingPending(approval) == approval.status = "pending"

CreateApprovalRequest(id, ttl_minutes, form_data) ==
    /\ IF ~AwaitsApproval(tasks[id])
       THEN /\ result' = Result("create_approval_request", "409", None, id)
            /\ UNCHANGED approvals
       ELSE IF ExistingPending(approvals[id])
       THEN /\ result' = Result("create_approval_request", "ok", None, id)
            /\ UNCHANGED approvals
       ELSE IF approvals[id] # NoApproval
       THEN \* approval_requests.task_id is unique: the INSERT is refused
            /\ result' = Result("create_approval_request", "IntegrityError", None, id)
            /\ UNCHANGED approvals
       ELSE /\ approvals' = [approvals EXCEPT ![id] =
                                [status |-> "pending",
                                 expires_at |-> now + ttl_minutes,
                                 approved_at |-> NoTime,
                                 form_data |-> form_data]]
            /\ result' = Result("create_approval_request", "ok", None, id)
    /\ UNCHANGED <<tasks, applied, now, lock, workers, runs, requests,
                   auto_retried, sweep>>

\* POST /approvals/{id}/approve
IsExpired_reversed(approval, t) == t < approval.expires_at

IsExpired(approval, t) == t > approval.expires_at

AlreadyProcessed_never(approval) == FALSE

AlreadyProcessed(approval) == approval.status # "pending"

DecisionState_reject_expires(approved) == IF approved THEN "APPROVED" ELSE "EXPIRED"

DecisionState(approved) == IF approved THEN "APPROVED" ELSE "REJECTED"

ApproveOrReject(id, approved) ==
    /\ approvals[id] # NoApproval
    /\ lock[id] = 0
    /\ IF AlreadyProcessed(approvals[id])
       THEN /\ result' = Result("approve_or_reject", "409", None, id)
            /\ UNCHANGED <<tasks, approvals>>
       ELSE IF IsExpired(approvals[id], now)
       THEN LET r == Transition(id, "PENDING_APPROVAL", "EXPIRED", NoMetadata)
            IN  \* the expired status is committed before the transition
                /\ approvals' = [approvals EXCEPT ![id].status = "expired"]
                /\ tasks' = [tasks EXCEPT ![id] = r.task]
                /\ result' = Result("approve_or_reject",
                                    IF r.status = "ok" THEN "409" ELSE r.status,
                                    None, id)
       ELSE LET to_state == DecisionState(approved)
                r == Transition(id, "PENDING_APPROVAL", to_state, NoMetadata)
            IN  IF r.status = "ok"
                THEN /\ approvals' = [approvals EXCEPT ![id] =
                                        IF approved
                                        THEN [@ EXCEPT !.status = "approved",
                                                       !.approved_at = now]
                                        ELSE [@ EXCEPT !.status = "rejected"]]
                     /\ tasks' = [tasks EXCEPT ![id] = r.task]
                     /\ result' = Result("approve_or_reject", "ok", None, id)
                ELSE \* the exception leaves the request uncommitted
                     /\ result' = Result("approve_or_reject", r.status, None, id)
                     /\ UNCHANGED <<tasks, approvals>>
    /\ UNCHANGED <<applied, now, lock, workers, runs, requests,
                   auto_retried, sweep>>

Tick ==
    /\ now < MaxTime
    /\ now' = now + 1
    /\ UNCHANGED <<tasks, applied, approvals, result, lock, workers, runs, requests,
                   auto_retried, sweep>>

InitTask ==
    /\ tasks = [id \in {1} |-> NewTask(1, 1, 1)]
    /\ applied = [j \in {1} |-> FALSE]
    /\ approvals = [id \in {1} |-> NoApproval]
    /\ now = 1
    /\ result = NoResult
    /\ lock = [id \in {1} |-> 0]
    /\ workers = <<>>
    /\ runs = <<>>
    /\ requests = <<>>
    /\ auto_retried = [id \in DOMAIN tasks |-> 0]
    /\ sweep = IdleSweep

Init == InitTask

\* Callers of the state machine that pass no expected state or the state
\* they have just read.
ExpectedStates(id) == {None, tasks[id].state}

\* A report carries an error code together with its message, or neither.
ReportMetadata ==
    {NoMetadata} \cup
    {[error_code |-> c, error_message |-> m] : c \in ErrorCodes, m \in ErrorMessages}

Next ==
    \/ \E id \in TaskIds, to \in TaskState, m \in ReportMetadata :
          \E f \in ExpectedStates(id) : TransitionTaskCall(id, f, to, m)
    \/ \E run_id \in RunIds : DequeueCall(run_id)
    \/ \E timeout \in Timeouts, max_attempts \in MaxAttemptsArgs :
          RecoverStuckTasks(timeout, max_attempts)
    \/ \E id \in TaskIds : QueueResumeTask(id)
    \/ \E id \in TaskIds : ResumeEndpoint(id)
    \/ \E id \in TaskIds, ttl \in TTLs, form \in FormDatas :
          CreateApprovalRequest(id, ttl, form)
    \/ \E id \in TaskIds, approved \in BOOLEAN : ApproveOrReject(id, approved)
    \/ Tick

Spec == Init /\ [][Next]_vars

\* ------------------------------------ SpecCalls: transition_task under every
\* argument, the expected state included, at one instant of the clock.
NextCalls ==
    \/ \E id \in TaskIds, f \in FromStates, to \in TaskState, m \in Metadata :
          TransitionTaskCall(id, f, to, m)
    \/ \E id \in TaskIds, ttl \in TTLs, form \in FormDatas :
          CreateApprovalRequest(id, ttl, form)
    \/ \E id \in TaskIds, approved \in BOOLEAN : ApproveOrReject(id, approved)

SpecCalls == Init /\ [][NextCalls]_vars

\* ------------------------------------ SpecSweep: the recovery sweep over
\* several tasks that workers start and report on while the clock runs.
InitSweep ==
    /\ tasks = [id \in 1..NumTasks |-> NewTask(1, id, 1)]
    /\ applied = [j \in 1..NumTasks |-> FALSE]
    /\ approvals = [id \in 1..NumTasks |-> NoApproval]
    /\ now = 1
    /\ result = NoResult
    /\ lock = [id \in 1..NumTasks |-> 0]
    /\ workers = <<>>
    /\ runs = <<>>
    /\ requests = <<>>
    /\ auto_retried = [id \in DOMAIN tasks |-> 0]
    /\ sweep = IdleSweep

\* What a task's automation reports once it runs.
WorkerReports == {"FAILED", "NEEDS_AUTH", "SUBMITTED"}

NextSweep ==
    \/ \E id \in TaskIds : TransitionTaskCall(id, "QUEUED", "RUNNING", NoMetadata)
    \/ \E id \in TaskIds, to \in WorkerReports :
          TransitionTaskCall(id, "RUNNING", to, NoMetadata)
    \/ \E timeout \in Timeouts, max_attempts \in MaxAttemptsArgs :
          RecoverStuckTasks(timeout, max_attempts)
    \/ Tick

SpecSweep == InitSweep /\ [][NextSweep]_vars

\* ------------------------------------ SpecResume: the tasks of one run that
\* run, stop in a state a user can resume from, and are resumed by either
\* resume operation.
StopReports == {"FAILED", "NEEDS_AUTH", "NEEDS_USER", "EXPIRED"}

NextResume ==
    \/ \E id \in TaskIds : TransitionTaskCall(id, "QUEUED", "RUNNING", NoMetadata)
    \/ \E id \in TaskIds, to \in StopReports :
          TransitionTaskCall(id, "RUNNING", to, NoMetadata)
    \/ \E id \in TaskIds : QueueResumeTask(id)
    \/ \E id \in TaskIds : ResumeEndpoint(id)
    \/ Tick

SpecResume == InitSweep /\ [][NextResume]_vars

\* ------------------------------------ SpecWorkers: worker_main processes on
\* shared runs.  A worker's session keeps the row it loaded at dequeue (the
\* identity map is not refreshed by the second SELECT), holds the row lock
\* from the dequeue to the commit inside transition_task, and its commit
\* writes the columns it changed.
\* A fresh ApplicationRun row; created_at is the order of insertion.
NewRun(user_id, created_at) ==
    [user_id |-> user_id, status |-> "queued", created_at |-> created_at,
     started_at |-> NoTime, completed_at |-> NoTime]

WorkerIds == 1..NumWorkers
QueueRuns == 1..2
QueuedAts == 1..2
IdleWorker == [pc |-> "start", task |-> 0, row |-> <<>>]

Flush(stored, loaded, changed) ==
    [col \in DOMAIN stored |->
        IF changed[col] # loaded[col] THEN changed[col] ELSE stored[col]]

Unlock(locks, w) == [id \in DOMAIN locks |-> IF locks[id] = w THEN 0 ELSE locks[id]]

WorkerDequeue(w, run_id) ==
    /\ workers[w].pc = "start"
    /\ \/ /\ dequeue_next_task(run_id, w) = {}
          /\ result' = Result("dequeue_next_task", "ok", None, 0)
          /\ UNCHANGED <<lock, workers>>
       \/ \E id \in dequeue_next_task(run_id, w) :
             /\ tasks[id].attempt_count < MaxAttemptCount
             /\ lock' = [lock EXCEPT ![id] = w]
             /\ workers' = [workers EXCEPT ![w] =
                              [pc |-> "dequeued", task |-> id, row |-> tasks[id]]]
             /\ result' = Result("dequeue_next_task", "ok", None, id)
    /\ UNCHANGED <<tasks, applied, approvals, now, runs, requests,
                   auto_retried, sweep>>

WorkerTransition(w) ==
    /\ workers[w].pc = "dequeued"
    /\ LET id == workers[w].task
           r == transition_task(workers[w].row, "QUEUED", "RUNNING", NoMetadata, now)
       IN  /\ tasks' = [tasks EXCEPT ![id] =
                           IF r.status = "ok"
                           THEN Flush(@, workers[w].row, r.task)
                           ELSE @]
           /\ result' = Result("worker_main", r.status, None, id)
    /\ lock' = Unlock(lock, w)
    /\ workers' = [workers EXCEPT ![w] = IdleWorker]
    /\ UNCHANGED <<applied, approvals, now, runs, requests,
                   auto_retried, sweep>>

InitWorkers ==
    /\ tasks \in {[id \in 1..NumTasks |-> NewTask(rq[id][1], id, rq[id][2])] :
                     rq \in [1..NumTasks -> QueueRuns \X QueuedAts]}
    /\ applied = [j \in 1..NumTasks |-> FALSE]
    /\ approvals = [id \in 1..NumTasks |-> NoApproval]
    /\ now = 2
    /\ result = NoResult
    /\ lock = [id \in 1..NumTasks |-> 0]
    /\ workers = [w \in WorkerIds |-> IdleWorker]
    \* the runs the tasks belong to: run 1 has been started, run 2 is still
    \* queued or has been completed before run 1 was started
    /\ runs \in {<<[NewRun(1, 1) EXCEPT !.status = "running", !.started_at = 1], r>> :
                    r \in {NewRun(1, 2),
                           [NewRun(1, 2) EXCEPT !.status = "completed",
                                                !.started_at = 1,
                                                !.completed_at = 1]}}
    /\ requests = <<>>
    /\ auto_retried = [id \in DOMAIN tasks |-> 0]
    /\ sweep = IdleSweep

NextWorkers ==
    \/ \E w \in WorkerIds, run_id \in QueueRuns : WorkerDequeue(w, run_id)
    \/ \E w \in WorkerIds : WorkerTransition(w)
    \/ \E id \in TaskIds, to \in WorkerReports :
          TransitionTaskCall(id, "RUNNING", to, NoMetadata)
    \/ \E id \in TaskIds : ResumeEndpoint(id)

SpecWorkers == InitWorkers /\ [][NextWorkers]_vars

\* ------------------------------------ SpecSweepSteps: recover_stuck_tasks
\* query by query, next to live workers and to DELETE /jobs/{id}?force=true.
\* The sweep's session keeps the rows its scan loaded (expire_on_commit is
\* off, and the SELECT inside transition_task does not refresh a row the
\* session holds); that SELECT finds no row once the task is deleted; a
\* commit writes the columns the sweep changed; transition_task refreshes
\* the row it has just committed.
SweepScan(timeout, max_attempts) ==
    /\ sweep.pc = "idle"
    /\ \E order \in Orders(StuckTasks(timeout)) :
          IF Len(order) = 0
          THEN /\ result' = Result("recover_stuck_tasks", "ok", None, 0)
               /\ UNCHANGED sweep
          ELSE /\ sweep' = [pc |-> "loop", order |-> order, i |-> 1,
                            rows |-> [id \in StuckTasks(timeout) |-> tasks[id]],
                            max_attempts |-> max_attempts]
               /\ UNCHANGED result
    /\ UNCHANGED <<tasks, applied, approvals, now, lock, workers, runs, requests,
                   auto_retried>>

\* where the loop goes after an iteration: on with the next row, out with
\* the count after the last one, out with the exception when one is raised
SweepAfter(status) ==
    IF status # "ok"
    THEN /\ sweep' = IdleSweep
         /\ result' = Result("recover_stuck_tasks", status, None, 0)
    ELSE IF sweep.i = Len(sweep.order)
    THEN /\ sweep' = IdleSweep
         /\ result' = Result("recover_stuck_tasks", "ok", None, Len(sweep.order))
    ELSE /\ sweep' = [sweep EXCEPT !.i = @ + 1]
         /\ UNCHANGED result

SweepStep ==
    /\ sweep.pc = "loop"
    /\ LET id == sweep.order[sweep.i]
           loaded == sweep.rows[id]
           r == RecoverOne(loaded, sweep.max_attempts, now)
       IN  IF id \notin TaskIds
           THEN /\ SweepAfter("ValueError")
                /\ UNCHANGED <<tasks, auto_retried>>
           ELSE IF r.status # "ok"
           THEN /\ SweepAfter(r.status)
                /\ UNCHANGED <<tasks, auto_retried>>
           ELSE /\ lock[id] = 0
                /\ tasks' = [tasks EXCEPT ![id] = Flush(@, loaded, r.task)]
                /\ auto_retried' =
                      [auto_retried EXCEPT ![id] =
                          IF /\ loaded.attempt_count >= sweep.max_attempts
                             /\ AutoRetried("FAILED", r)
                          THEN @ + 1 ELSE @]
                /\ SweepAfter("ok")
    /\ UNCHANGED <<applied, approvals, now, lock, workers, runs, requests>>

\* DELETE /jobs/{job_id}?force=true: the job's tasks go with it
DeleteJob(job_id) ==
    /\ \E id \in TaskIds : tasks[id].job_id = job_id
    /\ \A id \in TaskIds : tasks[id].job_id = job_id => lock[id] = 0
    /\ tasks' = [id \in {t \in TaskIds : tasks[t].job_id # job_id} |-> tasks[id]]
    /\ result' = Result("delete_job", "ok", None, job_id)
    /\ UNCHANGED <<applied, approvals, now, lock, workers, runs, requests,
                   auto_retried, sweep>>

NextSweepSteps ==
    \/ \E id \in TaskIds : TransitionTaskCall(id, "QUEUED", "RUNNING", NoMetadata)
    \/ \E id \in TaskIds, to \in WorkerReports :
          TransitionTaskCall(id, "RUNNING", to, NoMetadata)
    \/ \E timeout \in Timeouts, max_attempts \in MaxAttemptsArgs :
          SweepScan(timeout, max_attempts)
    \/ SweepStep
    \/ \E job_id \in 1..NumTasks : DeleteJob(job_id)
    \/ Tick

SpecSweepSteps == InitSweep /\ [][NextSweepSteps]_vars

\* ------------------------------------ SpecPickup: workers that keep polling
\* the run in progress while its tasks reach the approval gate and the user
\* answers.  Every worker that can take a step eventually takes one.
InitPickup ==
    /\ tasks = [id \in 1..NumTasks |-> NewTask(1, id, 1)]
    /\ applied = [j \in 1..NumTasks |-> FALSE]
    /\ approvals = [id \in 1..NumTasks |-> NoApproval]
    /\ now = 1
    /\ result = NoResult
    /\ lock = [id \in 1..NumTasks |-> 0]
    /\ workers = [w \in WorkerIds |-> IdleWorker]
    /\ runs = <<[NewRun(1, 1) EXCEPT !.status = "running", !.started_at = 1]>>
    /\ requests = <<>>
    /\ auto_retried = [id \in 1..NumTasks |-> 0]
    /\ sweep = IdleSweep

GateReports == {"PENDING_APPROVAL", "SUBMITTED"}

NextPickup ==
    \/ \E w \in WorkerIds : WorkerDequeue(w, 1)
    \/ \E w \in WorkerIds : WorkerTransition(w)
    \/ \E id \in TaskIds, to \in GateReports :
          TransitionTaskCall(id, "RUNNING", to, NoMetadata)
    \/ \E id \in TaskIds, ttl \in TTLs, form \in FormDatas :
          CreateApprovalRequest(id, ttl, form)
    \/ \E id \in TaskIds, approved \in BOOLEAN : ApproveOrReject(id, approved)

FairWorkers ==
    \A w \in WorkerIds :
        /\ WF_vars(WorkerDequeue(w, 1))
        /\ WF_vars(WorkerTransition(w))

SpecPickup == InitPickup /\ [][NextPickup]_vars /\ FairWorkers

\* ------------------------------------ SpecRecovery: workers that claim
\* tasks and are never heard of again, with a sweeper that calls
\* recover_stuck_tasks over and over with the max_attempts it was set up
\* with (kept in sweep.max_attempts).  Nobody reports and nobody resumes.
\* Time never stops: once the clock shows MaxTime, an hour that passes moves
\* every stored timestamp one back instead (only differences between
\* timestamps and the clock are ever compared; a timestamp that far back
\* stays at 1, before every cutoff now - timeout taken at MaxTime).
InitRecovery ==
    /\ tasks = [id \in 1..NumTasks |-> NewTask(1, id, 1)]
    /\ applied = [j \in 1..NumTasks |-> FALSE]
    /\ approvals = [id \in 1..NumTasks |-> NoApproval]
    /\ now = 1
    /\ result = NoResult
    /\ lock = [id \in 1..NumTasks |-> 0]
    /\ workers = [w \in WorkerIds |-> IdleWorker]
    /\ runs = <<[NewRun(1, 1) EXCEPT !.status = "running", !.started_at = 1]>>
    /\ requests = <<>>
    /\ auto_retried = [id \in 1..NumTasks |-> 0]
    /\ \E max_attempts \in AUTO_RETRY_LIMIT..MaxMaxAttempts :
          sweep = [IdleSweep EXCEPT !.max_attempts = max_attempts]

Earlier(t) == IF t = NoTime THEN NoTime ELSE IF t > 1 THEN t - 1 ELSE 1

EarlierRow(row) ==
    [row EXCEPT !.queued_at = Earlier(@),
                !.started_at = Earlier(@),
                !.last_state_change_at = Earlier(@)]

TimePasses ==
    \/ Tick
    \/ /\ now = MaxTime
       /\ tasks' = [id \in TaskIds |-> EarlierRow(tasks[id])]
       /\ workers' = [w \in WorkerIds |->
                        IF workers[w].pc = "dequeued"
                        THEN [workers[w] EXCEPT !.row = EarlierRow(@)]
                        ELSE workers[w]]
       /\ UNCHANGED <<applied, approvals, now, result, lock, runs, requests,
                      auto_retried, sweep>>

NextRecovery ==
    \/ \E w \in WorkerIds : WorkerDequeue(w, 1)
    \/ \E w \in WorkerIds : WorkerTransition(w)
    \/ \E timeout \in Timeouts : RecoverStuckTasks(timeout, sweep.max_attempts)
    \/ TimePasses

\* every worker that can take a step takes one, the sweeper comes back with
\* every timeout it is run with, and time passes
FairRecovery ==
    /\ FairWorkers
    /\ \A timeout \in Timeouts :
          WF_vars(RecoverStuckTasks(timeout, sweep.max_attempts))
    /\ WF_vars(TimePasses)

SpecRecovery == InitRecovery /\ [][NextRecovery]_vars /\ FairRecovery

\* ------------------------------------ SpecRuns: admission requests on the
\* application_runs table, one step per database round trip.  Every query
\* reads the committed rows; a commit writes the attributes the request set
\* on the row it loaded.
UserIds == 1..NumUsers
RequestIds == 1..NumRequests
RunIdsOf(user_id) == {r \in DOMAIN runs : runs[r].user_id = user_id}
IdleRequest == [op |-> "idle", pc |-> "idle", user_id |-> 0, run |-> 0, auto |-> FALSE]

\* get_active_run: the rows of the user with status running
get_active_run(user_id) ==
    {r \in RunIdsOf(user_id) : runs[r].status = "running"}

\* the user's queued rows with the smallest created_at
OldestQueued_newest(user_id) ==
    LET q == {r \in RunIdsOf(user_id) : runs[r].status = "queued"}
    IN  {r \in q : \A o \in q : runs[r].created_at >= runs[o].created_at}

OldestQueued(user_id) ==
    LET q == {r \in RunIdsOf(user_id) : runs[r].status = "queued"}
    IN  {r \in q : \A o \in q : runs[r].created_at <= runs[o].created_at}

Finish(p, op, status, run) ==
    /\ requests' = [requests EXCEPT ![p] = IdleRequest]
    /\ result' = Result(op, status, None, run)

\* POST /runs/ : the check for a running run, then the INSERT
CreateRunCheck(p, user_id) ==
    /\ requests[p].op = "idle"
    /\ Len(runs) + Cardinality({q \in RequestIds : requests[q].pc = "insert"}) < NumRuns
    /\ IF Cardinality(get_active_run(user_id)) > 1
       THEN Finish(p, "create_run", "500", 0)
       ELSE IF get_active_run(user_id) # {}
       THEN Finish(p, "create_run", "409", 0)
       ELSE /\ requests' = [requests EXCEPT ![p] =
                              [op |-> "create_run", pc |-> "insert",
                               user_id |-> user_id, run |-> 0, auto |-> FALSE]]
            /\ UNCHANGED result
    /\ UNCHANGED <<tasks, applied, approvals, now, lock, workers, runs,
                   auto_retried, sweep>>

CreateRunInsert(p) ==
    /\ requests[p].pc = "insert"
    /\ runs' = Append(runs, NewRun(requests[p].user_id, Len(runs) + 1))
    /\ Finish(p, "create_run", "ok", Len(runs) + 1)
    /\ UNCHANGED <<tasks, applied, approvals, now, lock, workers,
                   auto_retried, sweep>>

\* POST /runs/{run_id}/start : get_run_by_id and the checks on the loaded row
StartRunLoad(p, run_id) ==
    /\ requests[p].op = "idle"
    /\ run_id \in DOMAIN runs
    /\ IF runs[run_id].status \in {"running", "completed"}
       THEN Finish(p, "start_run", "400", run_id)
       ELSE /\ requests' = [requests EXCEPT ![p] =
                              [op |-> "start_run", pc |-> "check_active",
                               user_id |-> runs[run_id].user_id,
                               run |-> run_id, auto |-> FALSE]]
            /\ UNCHANGED result
    /\ UNCHANGED <<tasks, applied, approvals, now, lock, workers, runs,
                   auto_retried, sweep>>

\* start_next_run, called on its own
StartNextRunBegin(p, user_id) ==
    /\ requests[p].op = "idle"
    /\ requests' = [requests EXCEPT ![p] =
                      [op |-> "start_next_run", pc |-> "check_active",
                       user_id |-> user_id, run |-> 0, auto |-> FALSE]]
    /\ UNCHANGED <<tasks, applied, approvals, now, result, lock, workers, runs,
                   auto_retried, sweep>>

\* complete_run: the row is marked completed and committed; with
\* auto_start_next the request goes on into start_next_run.
CompletedRow(run, t) == [run EXCEPT !.status = "completed", !.completed_at = t]

CompleteRun(p, run_id, auto_start_next) ==
    /\ requests[p].op = "idle"
    /\ run_id \in DOMAIN runs
    /\ runs' = [runs EXCEPT ![run_id] = CompletedRow(@, now)]
    /\ IF auto_start_next
       THEN /\ requests' = [requests EXCEPT ![p] =
                              [op |-> "complete_run", pc |-> "check_active",
                               user_id |-> runs[run_id].user_id,
                               run |-> 0, auto |-> TRUE]]
            /\ UNCHANGED result
       ELSE Finish(p, "complete_run", "ok", 0)
    /\ UNCHANGED <<tasks, applied, approvals, now, lock, workers,
                   auto_retried, sweep>>

\* the get_active_run check of start_next_run and of start_run
CheckActive(p) ==
    /\ requests[p].pc = "check_active"
    /\ LET active == get_active_run(requests[p].user_id)
           op == requests[p].op
       IN  IF Cardinality(active) > 1
           THEN \* scalar_one_or_none finds several rows
                Finish(p, op, IF op = "start_run" THEN "500" ELSE "MultipleResultsFound", 0)
           ELSE IF op = "start_run"
           THEN IF active # {} /\ active # {requests[p].run}
                THEN Finish(p, op, "409", requests[p].run)
                ELSE /\ requests' = [requests EXCEPT ![p].pc = "write"]
                     /\ UNCHANGED result
           ELSE IF active # {}
                THEN Finish(p, op, "RuntimeError", 0)
                ELSE /\ requests' = [requests EXCEPT ![p].pc = "select_next"]
                     /\ UNCHANGED result
    /\ UNCHANGED <<tasks, applied, approvals, now, lock, workers, runs,
                   auto_retried, sweep>>

\* the oldest-queued query of start_next_run
SelectNext(p) ==
    /\ requests[p].pc = "select_next"
    /\ \/ /\ OldestQueued(requests[p].user_id) = {}
          /\ Finish(p, requests[p].op, "ok", 0)
       \/ \E r \in OldestQueued(requests[p].user_id) :
             /\ requests' = [requests EXCEPT ![p].pc = "write", ![p].run = r]
             /\ UNCHANGED result
    /\ UNCHANGED <<tasks, applied, approvals, now, lock, workers, runs,
                   auto_retried, sweep>>

\* status = running, started_at = now, commit
WriteRunning(p) ==
    /\ requests[p].pc = "write"
    /\ runs' = [runs EXCEPT ![requests[p].run].status = "running",
                            ![requests[p].run].started_at = now]
    /\ Finish(p, requests[p].op, "ok", requests[p].run)
    /\ UNCHANGED <<tasks, applied, approvals, now, lock, workers,
                   auto_retried, sweep>>

InitRuns ==
    /\ tasks = <<>>
    /\ applied = <<>>
    /\ approvals = <<>>
    /\ now = 1
    /\ result = NoResult
    /\ lock = <<>>
    /\ workers = <<>>
    /\ runs = <<>>
    /\ requests = [p \in RequestIds |-> IdleRequest]
    /\ auto_retried = <<>>
    /\ sweep = IdleSweep

NextRuns ==
    \/ \E p \in RequestIds, user_id \in UserIds : CreateRunCheck(p, user_id)
    \/ \E p \in RequestIds : CreateRunInsert(p)
    \/ \E p \in RequestIds, run_id \in DOMAIN runs : StartRunLoad(p, run_id)
    \/ \E p \in RequestIds, user_id \in UserIds : StartNextRunBegin(p, user_id)
    \/ \E p \in RequestIds, run_id \in DOMAIN runs, auto \in BOOLEAN :
          CompleteRun(p, run_id, auto)
    \/ \E p \in RequestIds : CheckActive(p)
    \/ \E p \in RequestIds : SelectNext(p)
    \/ \E p \in RequestIds : WriteRunning(p)

SpecRuns == InitRuns /\ [][NextRuns]_vars

\* ------------------------------------ SpecRunsSerial: the same requests, one
\* at a time: a request begins only when no other is in flight.
AllIdle == \A q \in RequestIds : requests[q] = IdleRequest

NextRunsSerial ==
    \/ AllIdle /\ \E p \in RequestIds, user_id \in UserIds : CreateRunCheck(p, user_id)
    \/ \E p \in RequestIds : CreateRunInsert(p)
    \/ AllIdle /\ \E p \in RequestIds, run_id \in DOMAIN runs : StartRunLoad(p, run_id)
    \/ AllIdle /\ \E p \in RequestIds, user_id \in UserIds : StartNextRunBegin(p, user_id)
    \/ AllIdle /\ \E p \in RequestIds, run_id \in DOMAIN runs, auto \in BOOLEAN :
                     CompleteRun(p, run_id, auto)
    \/ \E p \in RequestIds : CheckActive(p)
    \/ \E p \in RequestIds : SelectNext(p)
    \/ \E p \in RequestIds : WriteRunning(p)

SpecRunsSerial == InitRuns /\ [][NextRunsSerial]_vars

\* ------------------------------------ SpecApprovalSteps: POST
\* /approvals/{id}/approve commit by commit.  On an expired request the
\* handler commits status = expired, then calls transition_task, which
\* commits the task; the other branches reach the database in one commit.
ApproveBegin(p, id, approved) ==
    /\ requests[p].op = "idle"
    /\ approvals[id] # NoApproval
    /\ IF ~AlreadyProcessed(approvals[id]) /\ IsExpired(approvals[id], now)
       THEN /\ approvals' = [approvals EXCEPT ![id].status = "expired"]
            /\ requests' = [requests EXCEPT ![p] =
                              [op |-> "approve_or_reject", pc |-> "expire_task",
                               user_id |-> 0, run |-> id, auto |-> FALSE]]
            /\ UNCHANGED <<tasks, applied, now, result, lock, workers, runs,
                           auto_retried, sweep>>
       ELSE ApproveOrReject(id, approved)

ApproveExpireTask(p) ==
    /\ requests[p].pc = "expire_task"
    /\ LET id == requests[p].run
           r == Transition(id, "PENDING_APPROVAL", "EXPIRED", NoMetadata)
       IN  /\ lock[id] = 0
           /\ tasks' = [tasks EXCEPT ![id] = r.task]
           /\ result' = Result("approve_or_reject",
                               IF r.status = "ok" THEN "409" ELSE r.status,
                               None, id)
    /\ requests' = [requests EXCEPT ![p] = IdleRequest]
    /\ UNCHANGED <<applied, approvals, now, lock, workers, runs,
                   auto_retried, sweep>>

InitApprovalSteps ==
    /\ tasks = [id \in {1} |-> NewTask(1, 1, 1)]
    /\ applied = [j \in {1} |-> FALSE]
    /\ approvals = [id \in {1} |-> NoApproval]
    /\ now = 1
    /\ result = NoResult
    /\ lock = [id \in {1} |-> 0]
    /\ workers = <<>>
    /\ runs = <<>>
    /\ requests = [p \in RequestIds |-> IdleRequest]
    /\ auto_retried = [id \in {1} |-> 0]
    /\ sweep = IdleSweep

NextApprovalSteps ==
    \/ \E id \in TaskIds : TransitionTaskCall(id, "QUEUED", "RUNNING", NoMetadata)
    \/ \E id \in TaskIds :
          TransitionTaskCall(id, "RUNNING", "PENDING_APPROVAL", NoMetadata)
    \/ \E id \in TaskIds : ResumeEndpoint(id)
    \/ \E id \in TaskIds, ttl \in TTLs, form \in FormDatas :
          CreateApprovalRequest(id, ttl, form)
    \/ \E p \in RequestIds, id \in TaskIds, approved \in BOOLEAN :
          ApproveBegin(p, id, approved)
    \/ \E p \in RequestIds : ApproveExpireTask(p)
    \/ Tick

SpecApprovalSteps == InitApprovalSteps /\ [][NextApprovalSteps]_vars

\* ------------------------------------ SpecCompletion: the run in progress
\* with its tasks and workers, a second run of the user waiting behind it,
\* and the requests that complete runs, one at a time.
InitCompletion ==
    /\ tasks = [id \in 1..NumTasks |-> NewTask(1, id, 1)]
    /\ applied = [j \in 1..NumTasks |-> FALSE]
    /\ approvals = [id \in 1..NumTasks |-> NoApproval]
    /\ now = 1
    /\ result = NoResult
    /\ lock = [id \in 1..NumTasks |-> 0]
    /\ workers = [w \in WorkerIds |-> IdleWorker]
    /\ runs = <<[NewRun(1, 1) EXCEPT !.status = "running", !.started_at = 1],
                NewRun(1, 2)>>
    /\ requests = [p \in RequestIds |-> IdleRequest]
    /\ auto_retried = [id \in 1..NumTasks |-> 0]
    /\ sweep = IdleSweep

FinalReports == {"SUBMITTED", "FAILED"}

NextCompletion ==
    \/ \E w \in WorkerIds : WorkerDequeue(w, 1)
    \/ \E w \in WorkerIds : WorkerTransition(w)
    \/ \E id \in TaskIds, to \in FinalReports :
          TransitionTaskCall(id, "RUNNING", to, NoMetadata)
    \/ AllIdle /\ \E p \in RequestIds, run_id \in DOMAIN runs, auto \in BOOLEAN :
                     CompleteRun(p, run_id, auto)
    \/ \E p \in RequestIds : CheckActive(p)
    \/ \E p \in RequestIds : SelectNext(p)
    \/ \E p \in RequestIds : WriteRunning(p)

SpecCompletion == InitCompletion /\ [][NextCompletion]_vars

\* ======================================================== properties

\* C1: a transition_task call whose expected state is absent or equal to the
\* current state, for a (current state, to_state) pair that is no edge of the
\* graph, raises InvalidTransitionError and leaves every field of the task
\* (state, priority, attempt_count, error fields, timestamps) as it was.
\* Stated of the call's outcome on every row the system reaches.
C1_InvalidTransitionLeavesTask ==
    \A id \in TaskIds, to \in TaskState :
        ~can_transition(tasks[id].state, to)
        => \A f \in {None, tasks[id].state}, m \in Metadata :
              LET r == Transition(id, f, to, m)
              IN  /\ r.status = "InvalidTransitionError"
                  /\ r.task = tasks[id]
                  /\ ~r.applied

C1_Witness ==
    /\ result.op = "transition_task"
    /\ result.status = "InvalidTransitionError"

\* two workers between their dequeue and their commit hold different tasks
NoSharedClaim ==
    \A w1, w2 \in DOMAIN workers :
        (w1 # w2 /\ workers[w1].pc = "dequeued" /\ workers[w2].pc = "dequeued")
        => workers[w1].task # workers[w2].task

\* a successful claim by a worker, as a step on the stored row
ClaimEndsQueuedStay ==
    \A w \in DOMAIN workers :
        (WorkerTransition(w) /\ result'.status = "ok")
        => LET id == workers[w].task
           IN  /\ tasks[id].state = "QUEUED"
               /\ tasks'[id].state = "RUNNING"
               /\ tasks'[id].attempt_count = tasks[id].attempt_count + 1

\* C2: workers that run dequeue_next_task and then the transition QUEUED ->
\* RUNNING (expected state QUEUED) concurrently never hold the same task, and
\* every successful claim ends a stay of the stored row in QUEUED and raises
\* its attempt_count by exactly 1.
C2_NoDoubleClaim == []NoSharedClaim /\ [][ClaimEndsQueuedStay]_vars

C2_Witness ==
    \E w1, w2 \in DOMAIN workers :
        /\ w1 # w2
        /\ workers[w1].pc = "dequeued"
        /\ workers[w2].pc = "start"
        /\ result.op = "worker_main"
        /\ result.status = "ok"
        /\ tasks[result.ret].state = "RUNNING"
        /\ tasks[result.ret].run_id = tasks[workers[w1].task].run_id
        /\ tasks[result.ret].attempt_count = 2

\* C3: at every instant and for every user, at most one Run has status
\* running, under every interleaving of admission requests (start_next_run,
\* start_run, complete_run with auto_start_next, create_run).
C3_AtMostOneRunningRun ==
    \A user_id \in UserIds : Cardinality(get_active_run(user_id)) <= 1

\* C4: a request to move a RUNNING task to FAILED leaves it in QUEUED with
\* priority 100 when attempt_count < 2 and in FAILED when attempt_count >= 2;
\* attempt_count is not changed.
C4_AutoRetryPolicy ==
    [][\A id \in TaskIds, f \in {None, "RUNNING"}, m \in Metadata :
          ( /\ TransitionTaskCall(id, f, "FAILED", m)
            /\ tasks[id].state = "RUNNING" )
          => ( /\ result'.status = "ok"
               /\ tasks'[id].attempt_count = tasks[id].attempt_count
               /\ IF tasks[id].attempt_count < 2
                  THEN tasks'[id].state = "QUEUED" /\ tasks'[id].priority = 100
                  ELSE tasks'[id].state = "FAILED" )]_vars

C4_Witness ==
    /\ result.op = "transition_task"
    /\ result.status = "ok"
    /\ result.to = "FAILED"
    /\ tasks[result.ret].state = "QUEUED"
    /\ tasks[result.ret].priority = 100
    /\ tasks[result.ret].attempt_count = 1

\* C5: a job posting's applied flag is raised only by a step in which a task
\* of that job enters SUBMITTED; no other step (a transition into FAILED,
\* EXPIRED, REJECTED, a redirected FAILED, a sweep, a resume) raises it.
C5_AppliedOnlyOnSubmitted ==
    [][\A j \in DOMAIN applied :
          (applied'[j] /\ ~applied[j])
          => \E id \in TaskIds :
                /\ tasks[id].job_id = j
                /\ tasks[id].state # "SUBMITTED"
                /\ tasks'[id].state = "SUBMITTED"]_vars

C5_Witness ==
    \E id \in TaskIds :
        /\ applied[tasks[id].job_id]
        /\ tasks[id].state = "SUBMITTED"

\* C6: dequeue_next_task(run_id) returns none when the run has no QUEUED row
\* free of other transactions' locks, and otherwise one of those rows that no
\* other of them precedes: none has a greater priority, and none of equal
\* priority has an earlier queued_at.
C6_DequeueOrder ==
    [][\A w \in DOMAIN workers, run_id \in QueueRuns :
          WorkerDequeue(w, run_id)
          => LET id == result'.ret
                 free == {o \in TaskIds : /\ tasks[o].run_id = run_id
                                          /\ tasks[o].state = "QUEUED"
                                          /\ lock[o] \in {0, w}}
             IN  IF id = 0
                 THEN free = {}
                 ELSE /\ id \in free
                      /\ \A o \in free :
                            \/ tasks[o].priority < tasks[id].priority
                            \/ /\ tasks[o].priority = tasks[id].priority
                               /\ tasks[o].queued_at >= tasks[id].queued_at]_vars

C6_Witness ==
    \E w \in DOMAIN workers, o \in TaskIds :
        /\ workers[w].pc = "dequeued"
        /\ result = Result("dequeue_next_task", "ok", None, workers[w].task)
        /\ o # workers[w].task
        /\ tasks[o].run_id = tasks[workers[w].task].run_id
        /\ tasks[o].state = "QUEUED"
        /\ lock[o] = 0
        /\ tasks[o].priority = tasks[workers[w].task].priority
        /\ tasks[o].queued_at > tasks[workers[w].task].queued_at

\* C7: every task that recover_stuck_tasks selects as stuck ends in FAILED
\* with last_error_code MAX_ATTEMPTS_EXCEEDED when attempt_count >=
\* max_attempts, and in QUEUED otherwise, for every max_attempts >= 1.
C7_RecoveryFailsAtMaxAttempts ==
    [][\A timeout \in Timeouts, max_attempts \in MaxAttemptsArgs :
          RecoverStuckTasks(timeout, max_attempts)
          => \A id \in StuckTasks(timeout) :
                IF tasks[id].attempt_count >= max_attempts
                THEN /\ tasks'[id].state = "FAILED"
                     /\ tasks'[id].last_error_code = "MAX_ATTEMPTS_EXCEEDED"
                ELSE tasks'[id].state = "QUEUED"]_vars

\* C8: a transition_task call whose expected state differs from the current
\* state fails with the state-mismatch ValueError and leaves the task as it
\* was, whatever to_state is (an edge from the expected state or not); with
\* no expected state the call succeeds exactly when (current state, to_state)
\* is an edge and raises InvalidTransitionError otherwise.
\* Stated of the call's outcome on every row the system reaches.
C8_ExpectedStateMismatch ==
    \A id \in TaskIds, to \in TaskState, m \in Metadata :
        /\ \A f \in TaskState \ {tasks[id].state} :
              LET r == Transition(id, f, to, m)
              IN  /\ r.status = "ValueError"
                  /\ r.task = tasks[id]
                  /\ ~r.applied
        /\ Transition(id, None, to, m).status =
              IF to \in ALLOWED_TRANSITIONS[tasks[id].state]
              THEN "ok" ELSE "InvalidTransitionError"

C8_Witness ==
    /\ result.op = "transition_task"
    /\ result.status = "ValueError"

C10_ExpiredApprovalIsLazilyExpired ==
    [][\A id \in TaskIds, approved \in BOOLEAN :
          ( /\ ApproveOrReject(id, approved)
            /\ approvals[id].status = "pending"
            /\ now > approvals[id].expires_at )
          => ( /\ result'.status = "409"
               /\ approvals'[id].status = "expired"
               /\ tasks'[id].state = "EXPIRED" )]_vars

C10_Witness ==
    \E id \in TaskIds :
        /\ result.op = "approve_or_reject"
        /\ result.status = "409"
        /\ result.ret = id
        /\ approvals[id].status = "expired"
        /\ tasks[id].state = "EXPIRED"
        /\ tasks[id].last_state_change_at = now

\* C11: an ApprovalRequest whose status has left pending (approved, rejected
\* or expired) never changes again under any operation, and every
\* approve_or_reject on it answers 409 and changes neither the request nor
\* its task.
C11_ResolvedAtMostOnce ==
    [][\A id \in TaskIds :
          approvals[id].status \in {"approved", "rejected", "expired"}
          => /\ approvals'[id] = approvals[id]
             /\ \A approved \in BOOLEAN :
                   ApproveOrReject(id, approved)
                   => /\ result'.status = "409"
                      /\ tasks' = tasks]_vars

C11_Witness ==
    \E id \in TaskIds :
        /\ result = Result("approve_or_reject", "409", None, id)
        /\ approvals[id].status \in {"approved", "rejected"}
        /\ tasks[id].state = "PENDING_APPROVAL"

C13_CreateRequiresPendingApproval ==
    [][\A id \in TaskIds :
          /\ tasks[id].state # "PENDING_APPROVAL"
             => \A ttl \in TTLs, form \in FormDatas :
                   CreateApprovalRequest(id, ttl, form)
                   => /\ result'.status = "409"
                      /\ approvals' = approvals
          /\ (approvals[id] = NoApproval /\ approvals'[id] # NoApproval)
             => tasks[id].state = "PENDING_APPROVAL"]_vars

C13_Witness ==
    \E id \in TaskIds :
        /\ result = Result("create_approval_request", "409", None, id)
        /\ tasks[id].state = "RUNNING"
        /\ approvals[id] = NoApproval

\* C14: create_approval_request for a task that already has a pending
\* ApprovalRequest succeeds, returns that request and writes nothing: the
\* request keeps its original form_data and expires_at whatever the second
\* call carries, and the task still has the one pending request.
C14_CreateIsIdempotent ==
    [][\A id \in TaskIds, ttl \in TTLs, form \in FormDatas :
          ( /\ CreateApprovalRequest(id, ttl, form)
            /\ tasks[id].state = "PENDING_APPROVAL"
            /\ approvals[id].status = "pending" )
          => /\ result' = Result("create_approval_request", "ok", None, id)
             /\ approvals'[id] = approvals[id]]_vars

C14_Witness ==
    \E id \in TaskIds :
        /\ result = Result("create_approval_request", "ok", None, id)
        /\ approvals[id].status = "pending"
        /\ approvals[id].expires_at <= now

\* C15: in every step of every operation, a task's attempt_count goes up by
\* exactly 1 when the task enters RUNNING (from QUEUED or from APPROVED) and
\* keeps its value otherwise; started_at is set to the clock on the first
\* entry into RUNNING and keeps its value in every other step.
C15_AttemptCountAndStartedAt ==
    [][\A id \in TaskIds :
          LET enters == tasks[id].state # "RUNNING" /\ tasks'[id].state = "RUNNING"
          IN  /\ tasks'[id].attempt_count =
                    tasks[id].attempt_count + (IF enters THEN 1 ELSE 0)
              /\ tasks'[id].started_at =
                    IF enters /\ tasks[id].started_at = NoTime
                    THEN now ELSE tasks[id].started_at]_vars

C15_Witness ==
    \E id \in TaskIds :
        /\ result = Result("transition_task", "ok", "RUNNING", id)
        /\ tasks[id].state = "RUNNING"
        /\ tasks[id].attempt_count = 2
        /\ tasks[id].priority = PRIORITY_APPROVED
        /\ tasks[id].last_state_change_at = now
        /\ tasks[id].started_at # NoTime
        /\ tasks[id].started_at < now

\* C16: a transition of a task in NEEDS_AUTH or NEEDS_USER to QUEUED, called
\* with the matching expected state or with none, succeeds and leaves the
\* task with priority 100.
C16_ResumeBoost ==
    \A id \in TaskIds, m \in Metadata :
        tasks[id].state \in {"NEEDS_AUTH", "NEEDS_USER"}
        => \A f \in {None, tasks[id].state} :
              LET r == Transition(id, f, "QUEUED", m)
              IN  /\ r.status = "ok"
                  /\ r.task.priority = 100

\* C17: a transition of a task in APPROVED to RUNNING, called with the
\* matching expected state or with none, succeeds and leaves the task with
\* priority 200.
C17_ApprovedBoost ==
    \A id \in TaskIds, m \in Metadata :
        tasks[id].state = "APPROVED"
        => \A f \in {None, "APPROVED"} :
              LET r == Transition(id, f, "RUNNING", m)
              IN  /\ r.status = "ok"
                  /\ r.task.priority = 200

\* C18: a successful transition_task call leaves last_error_code equal to
\* the metadata's error_code when the metadata carries one and unchanged
\* when it does not, and likewise last_error_message, whatever the expected
\* state and to_state are and whichever branch fires (the redirect of FAILED
\* to QUEUED included).  Stated of the call's outcome on every row reached.
C18_ErrorMetadataPersisted ==
    \A id \in TaskIds, f \in FromStates, to \in TaskState, m \in Metadata :
        LET r == Transition(id, f, to, m)
        IN  r.status = "ok"
            => /\ r.task.last_error_code =
                     IF m.error_code # Absent
                     THEN m.error_code ELSE tasks[id].last_error_code
               /\ r.task.last_error_message =
                     IF m.error_message # AbsentMessage
                     THEN m.error_message ELSE tasks[id].last_error_message

C18_Witness ==
    \E id \in TaskIds, c \in ErrorCodes :
        /\ result = Result("transition_task", "ok", "FAILED", id)
        /\ tasks[id].state = "QUEUED"
        /\ tasks[id].priority = RETRY_PRIORITY
        /\ tasks[id].last_error_code = c
        /\ tasks[id].last_error_message = NoMessage

C20_DequeueReturnsQueuedOfRun ==
    [][\A w \in DOMAIN workers, run_id \in QueueRuns :
          WorkerDequeue(w, run_id)
          => LET id == result'.ret
             IN  /\ result'.status = "ok"
                 /\ id # 0 => /\ tasks[id].state = "QUEUED"
                              /\ tasks[id].run_id = run_id
                 /\ (\A o \in TaskIds :
                        tasks[o].run_id = run_id => tasks[o].state # "QUEUED")
                    => id = 0
                 /\ tasks' = tasks]_vars

C20_Witness ==
    \E w \in DOMAIN workers, o \in TaskIds :
        /\ workers[w].pc = "dequeued"
        /\ result = Result("dequeue_next_task", "ok", None, workers[w].task)
        /\ tasks[workers[w].task].state = "QUEUED"
        /\ o # workers[w].task
        /\ tasks[o].run_id = tasks[workers[w].task].run_id
        /\ tasks[o].state = "RUNNING"
        /\ tasks[o].priority > tasks[workers[w].task].priority

\* a worker that is about to dequeue can always take the step, whatever rows
\* the other workers hold (a task at the bound on attempts ends the
\* exploration, not the call)
DequeueNeverWaits ==
    \A w \in DOMAIN workers, run_id \in QueueRuns :
        ( /\ workers[w].pc = "start"
          /\ \A id \in dequeue_next_task(run_id, w) :
                tasks[id].attempt_count < MaxAttemptCount )
        => ENABLED WorkerDequeue(w, run_id)

\* a worker that holds a row can always go on to its transition and commit
HolderNeverWaits ==
    \A w \in DOMAIN workers :
        workers[w].pc = "dequeued" => ENABLED WorkerTransition(w)

\* a dequeue on a run some of whose QUEUED rows other workers hold
ContendedDequeue ==
    \A w \in DOMAIN workers, run_id \in QueueRuns :
        LET queued == {o \in TaskIds : /\ tasks[o].run_id = run_id
                                       /\ tasks[o].state = "QUEUED"}
            held == {o \in queued : lock[o] \notin {0, w}}
            id == result'.ret
        IN  (WorkerDequeue(w, run_id) /\ held # {})
            => /\ result'.status = "ok"
               /\ id = 0 <=> held = queued
               /\ id # 0 => /\ id \in queued \ held
                            /\ \A o \in queued \ held :
                                  ~Precedes(tasks[o], tasks[id])

\* C21: dequeue_next_task never waits on a row another worker holds: when
\* QUEUED rows of the run are locked by other transactions the call returns
\* the best of the unlocked ones, or none when all are locked; every worker
\* can always take its next step, so no set of dequeuers deadlocks.
C21_DequeueSkipsLockedRows ==
    /\ []DequeueNeverWaits
    /\ []HolderNeverWaits
    /\ [][ContendedDequeue]_vars

C21_Witness ==
    \E w1, w2 \in DOMAIN workers :
        /\ w1 # w2
        /\ workers[w1].pc = "dequeued"
        /\ workers[w2].pc = "dequeued"
        /\ lock[workers[w1].task] = w1
        /\ result = Result("dequeue_next_task", "ok", None, workers[w2].task)
        /\ tasks[workers[w1].task].run_id = tasks[workers[w2].task].run_id
        /\ tasks[workers[w1].task].state = "QUEUED"
        /\ Precedes(tasks[workers[w1].task], tasks[workers[w2].task])

\* C22: dequeue_next_task hands out tasks of running Runs only: a task that
\* a worker holds after its dequeue never belongs to a Run whose status is
\* queued or completed.
C22_OnlyRunningRunsDequeue ==
    \A w \in DOMAIN workers :
        workers[w].pc = "dequeued"
        => runs[tasks[workers[w].task].run_id].status = "running"

\* C23: recover_stuck_tasks(timeout, max_attempts) changes every task that
\* is in RUNNING with started_at earlier than now - timeout, takes it out of
\* RUNNING, leaves every other task as it was, and returns the number of
\* tasks it selected.
C23_SweepChangesExactlyStuckTasks ==
    [][\A timeout \in Timeouts, max_attempts \in MaxAttemptsArgs :
          RecoverStuckTasks(timeout, max_attempts)
          => LET selected == {id \in TaskIds :
                                /\ tasks[id].state = "RUNNING"
                                /\ tasks[id].started_at < now - timeout}
             IN  /\ result'.status = "ok"
                 /\ result'.ret = Cardinality(selected)
                 /\ \A id \in selected : /\ tasks'[id] # tasks[id]
                                          /\ tasks'[id].state # "RUNNING"
                 /\ \A id \in TaskIds \ selected : tasks'[id] = tasks[id]]_vars

C23_Witness ==
    \E a, b \in TaskIds :
        /\ result = Result("recover_stuck_tasks", "ok", None, 1)
        /\ tasks[a].state = "QUEUED"
        /\ tasks[a].last_state_change_at = now
        /\ tasks[a].started_at < now
        /\ tasks[b].state = "RUNNING"
        /\ tasks[b].started_at = now

\* C24: after a run of recover_stuck_tasks no task is left that a second
\* run with the same timeout at the same clock value would select, and a run
\* that finds no such task returns 0 and changes no task: two runs in a row
\* with nothing newly stuck in between leave the second one a no-op.
C24_SweepIsIdempotent ==
    [][\A timeout \in Timeouts, max_attempts \in MaxAttemptsArgs :
          RecoverStuckTasks(timeout, max_attempts)
          => /\ \A id \in TaskIds :
                   ~( /\ tasks'[id].state = "RUNNING"
                      /\ tasks'[id].started_at < now' - timeout )
             /\ (\A id \in TaskIds :
                    ~( /\ tasks[id].state = "RUNNING"
                       /\ tasks[id].started_at < now - timeout ))
                => /\ result' = Result("recover_stuck_tasks", "ok", None, 0)
                   /\ tasks' = tasks]_vars

C24_Witness ==
    \E id \in TaskIds :
        /\ result = Result("recover_stuck_tasks", "ok", None, 0)
        /\ tasks[id].last_error_code = "MAX_ATTEMPTS_EXCEEDED"
        /\ tasks[id].last_state_change_at = now
        /\ tasks[id].state # "RUNNING"

\* C25: recover_stuck_tasks changes no task whose current stay in RUNNING
\* began less than timeout ago, a task that re-entered RUNNING after an
\* earlier attempt included.
C25_RecentlyStartedNotRecovered ==
    [][\A timeout \in Timeouts, max_attempts \in MaxAttemptsArgs :
          RecoverStuckTasks(timeout, max_attempts)
          => \A id \in TaskIds :
                ( /\ tasks[id].state = "RUNNING"
                  /\ now - tasks[id].last_state_change_at < timeout )
                => tasks'[id] = tasks[id]]_vars

\* the running and the queued runs of a user, and the promotion of a run
RunningOf(user_id) ==
    {r \in DOMAIN runs : runs[r].user_id = user_id /\ runs[r].status = "running"}

QueuedOf(user_id) ==
    {r \in DOMAIN runs : runs[r].user_id = user_id /\ runs[r].status = "queued"}

\* the write of request p promotes the user's queued run with the smallest
\* created_at, stamps its started_at and changes no other run
PromotesOldestQueued(p) ==
    LET r == requests[p].run
        user_id == requests[p].user_id
    IN  /\ r \in QueuedOf(user_id)
        /\ \A o \in QueuedOf(user_id) : runs[r].created_at <= runs[o].created_at
        /\ RunningOf(user_id) = {}
        /\ runs' = [runs EXCEPT ![r].status = "running", ![r].started_at = now]
        /\ result' = Result(requests[p].op, "ok", None, r)

\* the oldest-queued query of request p: no queued run ends the call with
\* none and no change, otherwise the call goes on to its write
SelectsOrReturnsNone(p) ==
    IF QueuedOf(requests[p].user_id) = {}
    THEN /\ result' = Result(requests[p].op, "ok", None, 0)
         /\ requests'[p] = IdleRequest
         /\ runs' = runs
    ELSE /\ requests'[p].pc = "write"
         /\ runs' = runs

\* the active-run check of request p: a running run ends the call with
\* RuntimeError and no change, otherwise the call goes on
FailsFastOnActiveRun(p) ==
    IF RunningOf(requests[p].user_id) # {}
    THEN /\ result'.status = "RuntimeError"
         /\ requests'[p] = IdleRequest
         /\ runs' = runs
    ELSE /\ requests'[p].pc = "select_next"
         /\ runs' = runs

\* C26: start_next_run(user), run on its own: with a running Run of the
\* user it fails and changes no run; otherwise it sets the user's queued Run
\* with the smallest created_at to running, stamps its started_at and
\* changes no other run; with no queued Run it returns none and changes
\* nothing.
C26_StartNextRun ==
    [][\A p \in DOMAIN requests :
          requests[p].op = "start_next_run"
          => /\ CheckActive(p) => FailsFastOnActiveRun(p)
             /\ SelectNext(p) => SelectsOrReturnsNone(p)
             /\ WriteRunning(p) => PromotesOldestQueued(p)]_vars

C26_Witness ==
    \E r, o \in DOMAIN runs :
        /\ AllIdle
        /\ result = Result("start_next_run", "ok", None, r)
        /\ runs[r].status = "running"
        /\ runs[r].started_at = now
        /\ runs[o].user_id = runs[r].user_id
        /\ runs[o].status = "queued"
        /\ runs[o].created_at > runs[r].created_at

\* complete_run marks the run completed, stamps completed_at and changes no
\* other run; without auto_start_next the call ends there
MarksCompleted(p, run_id, auto_start_next) ==
    /\ runs' = [runs EXCEPT ![run_id].status = "completed",
                            ![run_id].completed_at = now]
    /\ IF auto_start_next
       THEN /\ requests'[p].op = "complete_run"
            /\ requests'[p].user_id = runs[run_id].user_id
       ELSE requests'[p] = IdleRequest

\* C27: complete_run(run, auto_start_next), run on its own, sets the run's
\* status to completed and stamps completed_at; with auto_start_next=true
\* the same user's oldest queued Run then becomes running and every other
\* queued Run stays queued; with auto_start_next=false no other run changes.
C27_CompleteRunStartsNext ==
    [][/\ \A p \in DOMAIN requests, run_id \in DOMAIN runs, auto \in BOOLEAN :
             CompleteRun(p, run_id, auto) => MarksCompleted(p, run_id, auto)
       /\ \A p \in DOMAIN requests :
             requests[p].op = "complete_run"
             => /\ (CheckActive(p) /\ QueuedOf(requests[p].user_id) # {})
                   => requests'[p].pc = "select_next"
                /\ SelectNext(p) => SelectsOrReturnsNone(p)
                /\ WriteRunning(p) => PromotesOldestQueued(p)]_vars

\* ------------------------------------------------------- manual resume
NonResumable ==
    {"QUEUED", "RUNNING", "PENDING_APPROVAL", "APPROVED", "SUBMITTED", "REJECTED"}

\* C28: the tasks resume endpoint answers 409 Conflict and leaves the task
\* unchanged whenever the task's state is QUEUED, RUNNING, PENDING_APPROVAL,
\* APPROVED, SUBMITTED or REJECTED, that is, not one of FAILED, NEEDS_AUTH,
\* NEEDS_USER, EXPIRED.
C28_ResumeRejectsNonResumable ==
    [][\A id \in TaskIds :
          (ResumeEndpoint(id) /\ tasks[id].state \in NonResumable)
          => /\ result' = Result("tasks.resume_task", "409", None, id)
             /\ tasks' = tasks
             /\ applied' = applied]_vars

C28_Witness ==
    \E id \in TaskIds :
        /\ result = Result("tasks.resume_task", "409", None, id)
        /\ tasks[id].state = "RUNNING"
        /\ tasks[id].attempt_count = 1

ManuallyResumable == {"FAILED", "NEEDS_AUTH", "NEEDS_USER", "EXPIRED"}

\* the row after the resume: QUEUED, priority 100, attempts as before
ResumedToQueue(id) ==
    /\ tasks'[id].state = "QUEUED"
    /\ tasks'[id].priority = 100
    /\ tasks'[id].attempt_count = tasks[id].attempt_count

\* queued_at is the time of the resume, and the row comes after every other
\* row that waits at priority 100: it never precedes one, and one queued
\* at an earlier time precedes it
QueuesBehindWaiting(id) ==
    /\ tasks'[id].queued_at = now
    /\ \A o \in TaskIds \ {id} :
          (tasks[o].state = "QUEUED" /\ tasks[o].priority = 100)
          => /\ ~Precedes(tasks'[id], tasks'[o])
             /\ tasks[o].queued_at < now => Precedes(tasks'[o], tasks'[id])

\* C29: a manual resume (POST /tasks/{id}/resume or queue.resume_task) of a
\* task in FAILED, NEEDS_AUTH, NEEDS_USER or EXPIRED leaves the task in
\* QUEUED with priority 100 and attempt_count unchanged; queue.resume_task
\* also sets queued_at to the time of the resume, so the resumed task comes
\* after the tasks already waiting at priority 100.
C29_ManualResumeQueuesAtPriority100 ==
    [][\A id \in TaskIds :
          tasks[id].state \in ManuallyResumable
          => /\ ResumeEndpoint(id) => ResumedToQueue(id)
             /\ QueueResumeTask(id)
                => (ResumedToQueue(id) /\ QueuesBehindWaiting(id))]_vars

C29_Witness ==
    \E id, o \in TaskIds :
        /\ o # id
        /\ result = Result("queue.resume_task", "ok", None, id)
        /\ tasks[id].state = "QUEUED"
        /\ tasks[id].priority = 100
        /\ tasks[id].attempt_count = 2
        /\ tasks[id].queued_at = now
        /\ tasks[o].state = "QUEUED"
        /\ tasks[o].priority = 100
        /\ tasks[o].queued_at < now

\* the outcomes of the two entry points on the stored row
ByEndpoint(id) == tasks_resume_task(tasks[id], now)
ByQueue(id) == queue_resume_task(tasks[id], now)

C30_AutoRetryAtMostOnce ==
    \A id \in TaskIds : auto_retried[id] <= 1

C30_Witness ==
    \E id \in TaskIds :
        /\ auto_retried[id] = 1
        /\ result = Result("transition_task", "ok", "FAILED", id)
        /\ tasks[id].state = "FAILED"
        /\ tasks[id].attempt_count = 3

\* ------------------------------------------------ bounded recovery
EntersRunning(id) ==
    tasks[id].state # "RUNNING" /\ tasks'[id].state = "RUNNING"

\* C40: recovery attempts are bounded.  Where workers claim tasks and never
\* report, nobody resumes, and recover_stuck_tasks is run again and again
\* with one max_attempts >= 2: attempt_count counts a task's entries into
\* RUNNING and never exceeds max_attempts, and, workers and sweeps being
\* fair, every task ends in FAILED and stays there.
C40_RecoveryIsBounded ==
    /\ [][\A id \in TaskIds :
            /\ tasks'[id].attempt_count =
                  tasks[id].attempt_count + (IF EntersRunning(id) THEN 1 ELSE 0)
            /\ tasks'[id].attempt_count <= sweep.max_attempts]_vars
    /\ \A id \in 1..NumTasks : <>[](tasks[id].state = "FAILED")

C40_Witness ==
    \A id \in TaskIds :
        /\ tasks[id].state = "FAILED"
        /\ tasks[id].attempt_count = sweep.max_attempts
        /\ tasks[id].last_error_code = "MAX_ATTEMPTS_EXCEEDED"
        /\ sweep.max_attempts >= AUTO_RETRY_LIMIT

\* C39: in every state reached through the state machine from a freshly
\* created task (QUEUED, attempt_count 0), a task in FAILED has
\* attempt_count >= 2 and a task in RUNNING has attempt_count >= 1, also when
\* the FAILED request comes from a recovery sweep with any max_attempts.
C39_AttemptCountFloors ==
    \A id \in TaskIds :
        /\ tasks[id].state = "FAILED" => tasks[id].attempt_count >= 2
        /\ tasks[id].state = "RUNNING" => tasks[id].attempt_count >= 1

C39_Witness ==
    \E id \in TaskIds :
        /\ result = Result("recover_stuck_tasks", "ok", None, 1)
        /\ tasks[id].state = "FAILED"
        /\ tasks[id].last_error_code = "MAX_ATTEMPTS_EXCEEDED"
        /\ tasks[id].attempt_count = 2

\* ------------------------------------------------- after the approval
\* C31: a task in APPROVED is claimable: with workers that keep polling its
\* run, each of them scheduled fairly, the task eventually makes the
\* transition APPROVED -> RUNNING and is never left in APPROVED for ever.
C31_ApprovedTaskIsPickedUp ==
    \A id \in 1..NumTasks :
        (tasks[id].state = "APPROVED") ~> (tasks[id].state = "RUNNING")

\* ------------------------------------------------ sweep and live workers
\* the row of the sweep's next iteration, when it is still there
SweepsNext(id) ==
    /\ sweep.pc = "loop"
    /\ sweep.order[sweep.i] = id
    /\ id \in TaskIds

\* C33: a recovery sweep never overwrites a state reported by a live worker:
\* when the worker's transition of a task out of RUNNING has committed after
\* the sweep scanned the task and before the sweep's own transition on it,
\* the sweep's transition fails with the state-mismatch error and the task
\* keeps the state the worker set.
C33_SweepKeepsWorkersReport ==
    [][\A id \in TaskIds :
          (SweepStep /\ SweepsNext(id) /\ tasks[id].state # "RUNNING")
          => /\ result' = Result("recover_stuck_tasks", "ValueError", None, 0)
             /\ tasks'[id] = tasks[id]]_vars

\* C36: a failed transition on one stuck task during a sweep does not keep
\* the other stuck tasks selected by the same sweep from being recovered:
\* after an iteration on any but the last selected row the sweep goes on
\* with the next row, whether the transition succeeded or not.
C36_SweepGoesOnAfterFailure ==
    [][(SweepStep /\ sweep.i < Len(sweep.order))
       => (sweep'.pc = "loop" /\ sweep'.i = sweep.i + 1)]_vars

\* C34: in every committed state an ApprovalRequest and its task agree:
\* status pending implies the task is in PENDING_APPROVAL, and status
\* approved, rejected or expired implies the task is no longer in
\* PENDING_APPROVAL.
C34_ApprovalAndTaskAgree ==
    \A id \in TaskIds :
        /\ approvals[id].status = "pending"
           => tasks[id].state = "PENDING_APPROVAL"
        /\ approvals[id].status \in {"approved", "rejected", "expired"}
           => tasks[id].state # "PENDING_APPROVAL"

\* C35: a task can be gated for approval more than once: once its
\* ApprovalRequest has expired or been approved and the task has been resumed
\* and has reached PENDING_APPROVAL again, create_approval_request succeeds
\* and yields a pending ApprovalRequest for the task.
C35_TaskCanBeGatedAgain ==
    [][\A id \in TaskIds, ttl \in TTLs, form \in FormDatas :
          (/\ CreateApprovalRequest(id, ttl, form)
           /\ tasks[id].state = "PENDING_APPROVAL"
           /\ approvals[id].status \in {"expired", "approved"})
          => /\ result' = Result("create_approval_request", "ok", None, id)
             /\ approvals'[id].status = "pending"]_vars

\* ------------------------------------------------------ run life cycle
\* C32: a Run with status completed is one whose tasks have all finished:
\* in every reachable state no task of a completed Run is in QUEUED or
\* RUNNING.
C32_CompletedRunHasNoOpenTask ==
    \A id \in TaskIds :
        runs[tasks[id].run_id].status = "completed"
        => tasks[id].state \notin {"QUEUED", "RUNNING"}

\* C38: a Run's status only ever moves queued -> running -> completed:
\* complete_run changes the status only of a Run that is running, a queued
\* Run becomes completed only after having been running, and a completed
\* Run never returns to queued or running.
C38_RunStatusMovesForward ==
    [][\A r \in DOMAIN runs :
          runs'[r].status # runs[r].status
          => <<runs[r].status, runs'[r].status>>
                \in {<<"queued", "running">>, <<"running", "completed">>}]_vars

====
